---- MODULE Spec2Model ----
(***************************************************************************)
(* Model of src/lambda/image_compression.py: lambda_handler, the S3-event  *)
(* handler that reads an uploaded image, shrinks it to fit 1024x1024,      *)
(* re-encodes it, writes it to the destination bucket and records a        *)
(* metadata item.                                                          *)
(*                                                                         *)
(* Several invocations of the handler may be in flight at once; they share *)
(* the destination bucket and the metadata table.  Every call that can     *)
(* raise (get_object, Image.open/thumbnail/save, put_object, put_item)     *)
(* either completes or ends the invocation with the exception.             *)
(*                                                                         *)
(* Strings that the code takes apart (object keys) are sequences of        *)
(* one-character strings.                                                  *)
(***************************************************************************)
EXTENDS Integers, Sequences, FiniteSets, TLC

\* ------------------------------------------------------------------ bounds
NumInv == 2
MaxRecords == 2
MaxDepth == 2
Near == 2
MaxScale == 3

\* ------------------------------------------------------- program constants
SOURCE_BUCKET == "source-image-azoz"
DEST_BUCKET == "resized-image-azoz"
TABLE_NAME == "ImageMetadata"
THUMB_SIDE == 1024
QUALITY == 70

\* A bucket name that is not the configured source bucket.
OTHER_BUCKET == "some-other-bucket"

Inv == 1..NumInv

\* ------------------------------------------------------------ object keys
RECURSIVE DirPath(_)
DirPath(n) == IF n = 0 THEN <<>> ELSE <<"d", "/">> \o DirPath(n - 1)

\* a and d/.../d/a share a basename under different directory paths; b has
\* another basename.
Keys == {<<"a">>, DirPath(MaxDepth) \o <<"a">>, <<"b">>}

\* One element of event['Records'].
S3Record(b, k) == [s3 |-> [bucket |-> [name |-> b], object |-> [key |-> k]]]

\* Uploads to the source bucket under every key, and an upload elsewhere.
Records == {S3Record(SOURCE_BUCKET, k) : k \in Keys} \cup {S3Record(OTHER_BUCKET, <<"a">>)}

\* ------------------------------------------------- what the source serves
\* The body of a source object: bytes that Pillow can or cannot decode.
Garbage == [decodable |-> FALSE, format |-> "none", size |-> <<0, 0>>]

ImageBody(fmt, w, h) == [decodable |-> TRUE, format |-> fmt, size |-> <<w, h>>]

\* The get_object responses the source bucket may give.
Responses ==
    { [Body |-> Garbage, ContentType |-> "text/plain", ContentLength |-> 5],
      [Body |-> ImageBody("JPEG", 2 * THUMB_SIDE, THUMB_SIDE),
       ContentType |-> "image/jpeg", ContentLength |-> 7],
      [Body |-> ImageBody("PNG", 3, 2),
       ContentType |-> "image/png", ContentLength |-> 9] }

NoObj == [Body |-> Garbage, ContentType |-> "", ContentLength |-> 0]
NoBuffer == [format |-> "none", size |-> <<0, 0>>, quality |-> 0, optimize |-> FALSE]

\* --------------------------------------------------------- pure functions
Abs(n) == IF n < 0 THEN 0 - n ELSE n

SetMax(S) == CHOOSE m \in S : \A n \in S : n <= m

\* str.rfind(c) + 1: the 1-based position of the last c in p, 0 when absent.
RFind(p, c) ==
    LET at == {n \in 1..Len(p) : p[n] = c}
    IN  IF at = {} THEN 0 ELSE SetMax(at)

\* str.find(c) + 1: the 1-based position of the first c in p, 0 when absent.
Find(p, c) ==
    LET at == {n \in 1..Len(p) : p[n] = c}
    IN  IF at = {} THEN 0 ELSE CHOOSE m \in at : \A n \in at : m <= n

\* Basename with the first slash taken for the last.
Basename_FirstSlash(p) == SubSeq(p, Find(p, "/") + 1, Len(p))

\* os.path.basename (posixpath): i = p.rfind('/') + 1; return p[i:]
Basename(p) == SubSeq(p, RFind(p, "/") + 1, Len(p))

RESIZED == <<"r", "e", "s", "i", "z", "e", "d", "-">>

\* f"resized-{os.path.basename(key)}"
OutputKey(k) == RESIZED \o Basename(k)

\* Image.thumbnail's round_aspect for x = round_aspect(y * aspect, ...):
\* the floor or the ceiling of y*w/h, whichever keeps the ratio closer to
\* w/h (the floor on a tie), and at least 1.
RoundAspectX(w, h, y) ==
    LET lo == (y * w) \div h
        hi == IF (y * w) % h = 0 THEN lo ELSE lo + 1
        best == IF Abs(w * y - lo * h) <= Abs(w * y - hi * h) THEN lo ELSE hi
    IN  IF best < 1 THEN 1 ELSE best

\* ... and for y = round_aspect(x / aspect, key = 0 if n == 0 else
\* abs(aspect - x / n)).
RoundAspectY(w, h, x) ==
    LET lo == (x * h) \div w
        hi == IF (x * h) % w = 0 THEN lo ELSE lo + 1
        best == IF lo = 0 THEN lo
                ELSE IF Abs(w * lo - x * h) * hi <= Abs(w * hi - x * h) * lo
                     THEN lo ELSE hi
    IN  IF best < 1 THEN 1 ELSE best

\* Thumbnail that always fits the width to the box, also for tall images.
Thumbnail_FitWidth(size, box) ==
    IF box[1] >= size[1] /\ box[2] >= size[2] THEN size
    ELSE <<box[1], RoundAspectY(size[1], size[2], box[1])>>

\* image.thumbnail((1024, 1024)): the size of the image afterwards.
Thumbnail(size, box) ==
    LET w == size[1]
        h == size[2]
        x == box[1]
        y == box[2]
    IN  IF x >= w /\ y >= h THEN size
        ELSE IF x * h >= y * w THEN <<RoundAspectX(w, h, y), y>>
        ELSE <<x, RoundAspectY(w, h, x)>>

\* image.save(output_buffer, format=image.format, optimize=True, quality=70)
Save(body) ==
    [format |-> body.format,
     size |-> Thumbnail(body.size, <<THUMB_SIDE, THUMB_SIDE>>),
     quality |-> QUALITY, optimize |-> TRUE]

\* ------------------------------------------------------------------ state
VARIABLES
    event,          \* event[p]: the batch invocation p was called with
    pc,             \* pc[p]: where invocation p stands
    i,              \* i[p]: index in event['Records'] of the current record
    obj,            \* obj[p]: the get_object response of the current record
    output_buffer,  \* output_buffer[p]: the re-encoded image
    output_key,     \* output_key[p]: the key of the derivative
    raised,         \* raised[p]: the exception that left p and the call that raised it
    ret,            \* ret[p]: the value p returned, <<>> if none (yet)
    dest,           \* the destination bucket: key -> object
    metadata_table, \* the ImageMetadata table: imageId -> item
    trace           \* history: trace[p] is the steps p completed, in order

vars == <<event, pc, i, obj, output_buffer, output_key, raised, ret,
          dest, metadata_table, trace>>

locals == <<obj, output_buffer, output_key>>

NoExc == [type |-> "", at |-> ""]
NoReturn == <<>>
Done == [status |-> "done"]

Log(p, step) == [trace EXCEPT ![p] = Append(@, step)]

Step(p, n, op, b, k, d) ==
    [inv |-> p, idx |-> n, op |-> op, bucket |-> b, key |-> k, data |-> d]

\* record['s3']['object']['key'] and record['s3']['bucket']['name']
KeyOf(p, n) == event[p][n].s3.object.key
BucketOf(p, n) == event[p][n].s3.bucket.name

RECURSIVE SumLen(_, _)
SumLen(f, S) ==
    IF S = {} THEN 0
    ELSE LET p == CHOOSE q \in S : TRUE IN Len(f[p]) + SumLen(f, S \ {p})

\* The batches of at most n records.
RECURSIVE Batches(_)
Batches(n) ==
    IF n = 0 THEN {<<>>}
    ELSE Batches(n - 1) \cup
         {Append(b, r) : b \in {c \in Batches(n - 1) : Len(c) = n - 1}, r \in Records}

Init ==
    /\ event = [p \in Inv |-> <<>>]
    /\ pc = [p \in Inv |-> "idle"]
    /\ i = [p \in Inv |-> 0]
    /\ obj = [p \in Inv |-> NoObj]
    /\ output_buffer = [p \in Inv |-> NoBuffer]
    /\ output_key = [p \in Inv |-> <<>>]
    /\ raised = [p \in Inv |-> NoExc]
    /\ ret = [p \in Inv |-> NoReturn]
    /\ dest = <<>>
    /\ metadata_table = <<>>
    /\ trace = [p \in Inv |-> <<>>]

\* ---------------------------------------------------------------- actions
\* The environment calls lambda_handler(event, context); invocations are
\* numbered in the order they are called.
Invoke(p) ==
    /\ pc[p] = "idle"
    /\ \A q \in 1..(p - 1) : pc[q] # "idle"
    /\ \E ev \in Batches(MaxRecords - SumLen(event, Inv)) :
          event' = [event EXCEPT ![p] = ev]
    /\ pc' = [pc EXCEPT ![p] = "loop"]
    /\ i' = [i EXCEPT ![p] = 1]
    /\ UNCHANGED <<locals, raised, ret, dest, metadata_table, trace>>

\* Raise with the exception caught and dropped: on to the next record.
Raise_Swallowed(p, exc, at) ==
    /\ pc' = [pc EXCEPT ![p] = "loop"]
    /\ i' = [i EXCEPT ![p] = @ + 1]
    /\ UNCHANGED <<event, locals, raised, ret, dest, metadata_table, trace>>

\* Raise with the exception noted and the loop carried on.
Raise_ThenContinue(p, exc, at) ==
    /\ pc' = [pc EXCEPT ![p] = "loop"]
    /\ i' = [i EXCEPT ![p] = @ + 1]
    /\ raised' = [raised EXCEPT ![p] = [type |-> exc, at |-> at]]
    /\ UNCHANGED <<event, locals, ret, dest, metadata_table, trace>>

\* An exception leaves lambda_handler: nothing catches it.
Raise(p, exc, at) ==
    /\ pc' = [pc EXCEPT ![p] = "failed"]
    /\ raised' = [raised EXCEPT ![p] = [type |-> exc, at |-> at]]
    /\ UNCHANGED <<event, i, locals, ret, dest, metadata_table, trace>>

\* if bucket != SOURCE_BUCKET: continue
Skip(p) ==
    /\ pc[p] = "loop"
    /\ i[p] <= Len(event[p])
    /\ BucketOf(p, i[p]) # SOURCE_BUCKET
    /\ i' = [i EXCEPT ![p] = @ + 1]
    /\ UNCHANGED <<event, pc, locals, raised, ret, dest, metadata_table, trace>>

\* GetObject without the bucket test before it.
GetObject_NoFilter(p) ==
    /\ pc[p] = "loop"
    /\ i[p] <= Len(event[p])
    /\ \/ \E o \in Responses :
             /\ obj' = [obj EXCEPT ![p] = o]
             /\ trace' = Log(p, Step(p, i[p], "get", BucketOf(p, i[p]),
                                     KeyOf(p, i[p]), o))
             /\ pc' = [pc EXCEPT ![p] = "transform"]
             /\ UNCHANGED <<event, i, output_buffer, output_key, raised, ret,
                            dest, metadata_table>>
       \/ Raise(p, "StoreReadError", "get")

\* obj = s3.get_object(Bucket=bucket, Key=key); img_data = obj["Body"].read()
GetObject(p) ==
    /\ pc[p] = "loop"
    /\ i[p] <= Len(event[p])
    /\ BucketOf(p, i[p]) = SOURCE_BUCKET
    /\ \/ \E o \in Responses :
             /\ obj' = [obj EXCEPT ![p] = o]
             /\ trace' = Log(p, Step(p, i[p], "get", BucketOf(p, i[p]),
                                            KeyOf(p, i[p]), o))
             /\ pc' = [pc EXCEPT ![p] = "transform"]
             /\ UNCHANGED <<event, i, output_buffer, output_key, raised, ret,
                            dest, metadata_table>>
       \/ Raise(p, "StoreReadError", "get")

\* Transform that passes on whatever bytes it was given.
Transform_NoDecodeCheck(p) ==
    /\ pc[p] = "transform"
    /\ output_buffer' = [output_buffer EXCEPT ![p] = Save(obj[p].Body)]
    /\ trace' = Log(p, Step(p, i[p], "transform", BucketOf(p, i[p]),
                            KeyOf(p, i[p]), Save(obj[p].Body)))
    /\ pc' = [pc EXCEPT ![p] = "put"]
    /\ UNCHANGED <<event, i, obj, output_key, raised, ret, dest, metadata_table>>

\* Image.open(...); image.thumbnail((1024, 1024)); image.save(output_buffer, ...)
Transform(p) ==
    /\ pc[p] = "transform"
    /\ \/ /\ obj[p].Body.decodable
          /\ output_buffer' = [output_buffer EXCEPT ![p] = Save(obj[p].Body)]
          /\ trace' = Log(p, Step(p, i[p], "transform", BucketOf(p, i[p]),
                                         KeyOf(p, i[p]), Save(obj[p].Body)))
          /\ pc' = [pc EXCEPT ![p] = "put"]
          /\ UNCHANGED <<event, i, obj, output_key, raised, ret, dest,
                         metadata_table>>
       \/ /\ ~obj[p].Body.decodable
          /\ Raise(p, "DecodeError", "transform")

\* What put_object stores under a key.
Stored(p) == [Body |-> output_buffer[p], ContentType |-> obj[p].ContentType]

\* Put that keeps what is already stored under k.
Put_IfAbsent(f, k, v) ==
    [x \in DOMAIN f \cup {k} |-> IF x \in DOMAIN f THEN f[x] ELSE v]

\* dict-like update: the value at k is replaced or created.
Put(f, k, v) == [x \in DOMAIN f \cup {k} |-> IF x = k THEN v ELSE f[x]]

\* output_key = f"resized-{...}"; s3.put_object(Bucket=DEST_BUCKET, Key=output_key, ...)
PutObject(p) ==
    /\ pc[p] = "put"
    /\ \/ /\ output_key' = [output_key EXCEPT ![p] = OutputKey(KeyOf(p, i[p]))]
          /\ dest' = Put(dest, OutputKey(KeyOf(p, i[p])), Stored(p))
          /\ trace' = Log(p, Step(p, i[p], "put", DEST_BUCKET,
                                         OutputKey(KeyOf(p, i[p])), Stored(p)))
          /\ pc' = [pc EXCEPT ![p] = "insert"]
          /\ UNCHANGED <<event, i, obj, output_buffer, raised, ret, metadata_table>>
       \/ Raise(p, "StoreWriteError", "put")

\* str(uuid.uuid4()): an identifier no other call returns; it is named after
\* the call that drew it.  (Two draws of 122 random bits that coincide are
\* not modelled.)
Uuid4(p) == <<"uuid", p, i[p]>>

\* datetime.utcnow().isoformat(); the instant is kept symbolic.
UtcNow == "utcnow"

\* Item with the source key written as destKey.
Item_DestKeyIsSourceKey(p) ==
    [imageId |-> Uuid4(p),
     sourceBucket |-> BucketOf(p, i[p]),
     sourceKey |-> KeyOf(p, i[p]),
     destBucket |-> DEST_BUCKET,
     destKey |-> KeyOf(p, i[p]),
     contentType |-> obj[p].ContentType,
     sizeOriginal |-> obj[p].ContentLength,
     resizedAt |-> UtcNow]

\* Item with the width of the derivative written as sizeOriginal.
Item_SizeOfOutput(p) ==
    [imageId |-> Uuid4(p),
     sourceBucket |-> BucketOf(p, i[p]),
     sourceKey |-> KeyOf(p, i[p]),
     destBucket |-> DEST_BUCKET,
     destKey |-> output_key[p],
     contentType |-> obj[p].ContentType,
     sizeOriginal |-> output_buffer[p].size[1],
     resizedAt |-> UtcNow]

\* The Item of metadata_table.put_item.
Item(p) ==
    [imageId |-> Uuid4(p),
     sourceBucket |-> BucketOf(p, i[p]),
     sourceKey |-> KeyOf(p, i[p]),
     destBucket |-> DEST_BUCKET,
     destKey |-> output_key[p],
     contentType |-> obj[p].ContentType,
     sizeOriginal |-> obj[p].ContentLength,
     resizedAt |-> UtcNow]

\* PutItem that goes round the loop without moving to the next record.
PutItem_NoAdvance(p) ==
    /\ pc[p] = "insert"
    /\ \/ /\ metadata_table' = Put(metadata_table, Item(p).imageId, Item(p))
          /\ trace' = Log(p, Step(p, i[p], "insert", TABLE_NAME, <<>>, Item(p)))
          /\ pc' = [pc EXCEPT ![p] = "loop"]
          /\ UNCHANGED <<event, i, locals, raised, ret, dest>>
       \/ Raise(p, "StoreWriteError", "insert")

\* metadata_table.put_item(Item={...}), then the next record of the loop.
PutItem(p) ==
    /\ pc[p] = "insert"
    /\ \/ /\ metadata_table' = Put(metadata_table, Item(p).imageId, Item(p))
          /\ trace' = Log(p, Step(p, i[p], "insert", TABLE_NAME, <<>>, Item(p)))
          /\ i' = [i EXCEPT ![p] = @ + 1]
          /\ pc' = [pc EXCEPT ![p] = "loop"]
          /\ UNCHANGED <<event, locals, raised, ret, dest>>
       \/ Raise(p, "StoreWriteError", "insert")

\* return {"status": "done"}
Return(p) ==
    /\ pc[p] = "loop"
    /\ i[p] > Len(event[p])
    /\ ret' = [ret EXCEPT ![p] = Done]
    /\ pc' = [pc EXCEPT ![p] = "done"]
    /\ UNCHANGED <<event, i, locals, raised, dest, metadata_table, trace>>

lambda_handler(p) ==
    \/ Skip(p)
    \/ GetObject(p)
    \/ Transform(p)
    \/ PutObject(p)
    \/ PutItem(p)
    \/ Return(p)

Next == \E p \in Inv : Invoke(p) \/ lambda_handler(p)

Spec == Init /\ [][Next]_vars

\* ------------------------------------------- the transformer on its own
\* Image sizes around the small end, around multiples of the box side.
Sides ==
    (1..Near) \cup
    {s * THUMB_SIDE + d : s \in 1..MaxScale, d \in (0 - Near)..Near}

\* Invocation 1 has just read a decodable image of some size from the
\* source bucket; the other invocations have not been called.
InitThumb ==
    \E w \in Sides, h \in Sides, r \in {x \in Responses : x.Body.decodable} :
        LET o == [r EXCEPT !.Body.size = <<w, h>>]
            ev == <<S3Record(SOURCE_BUCKET, <<"a">>)>>
        IN  /\ event = [p \in Inv |-> IF p = 1 THEN ev ELSE <<>>]
            /\ pc = [p \in Inv |-> IF p = 1 THEN "transform" ELSE "idle"]
            /\ i = [p \in Inv |-> IF p = 1 THEN 1 ELSE 0]
            /\ obj = [p \in Inv |-> IF p = 1 THEN o ELSE NoObj]
            /\ output_buffer = [p \in Inv |-> NoBuffer]
            /\ output_key = [p \in Inv |-> <<>>]
            /\ raised = [p \in Inv |-> NoExc]
            /\ ret = [p \in Inv |-> NoReturn]
            /\ dest = <<>>
            /\ metadata_table = <<>>
            /\ trace = [p \in Inv |->
                          IF p = 1
                          THEN <<Step(1, 1, "get", SOURCE_BUCKET, <<"a">>, o)>>
                          ELSE <<>>]

NextThumb == Transform(1) \/ PutObject(1) \/ PutItem(1) \/ Return(1)

SpecThumb == InitThumb /\ [][NextThumb]_vars

\* ================================================================ claims
Terminal == {"done", "failed"}

Quiescent == \A p \in Inv : pc[p] \in {"idle"} \cup Terminal

\* The records of p's batch that name the source bucket.
Matching(p) == {n \in 1..Len(event[p]) : BucketOf(p, n) = SOURCE_BUCKET}

\* The positions in trace[p] of the steps op of record n.
At(p, n, op) ==
    {m \in 1..Len(trace[p]) : trace[p][m].idx = n /\ trace[p][m].op = op}

Count(p, op) == Cardinality({m \in 1..Len(trace[p]) : trace[p][m].op = op})

TheStep(p, n, op) == trace[p][CHOOSE m \in At(p, n, op) : TRUE]

\* Record n of p has been through all four stages.
Complete(p, n) ==
    \A op \in {"get", "transform", "put", "insert"} : At(p, n, op) # {}

\* The last slash-separated segment of a key, found by splitting from the left.
RECURSIVE LastSegment(_, _)
LastSegment(k, seg) ==
    IF k = <<>> THEN seg
    ELSE IF Head(k) = "/" THEN LastSegment(Tail(k), <<>>)
    ELSE LastSegment(Tail(k), Append(seg, Head(k)))

Slashes(k) == Cardinality({n \in 1..Len(k) : k[n] = "/"})

\* The metadata items that name destination key k.
RecordsOf(k) ==
    {id \in DOMAIN metadata_table :
        /\ metadata_table[id].destBucket = DEST_BUCKET
        /\ metadata_table[id].destKey = k}

\* C1 as written: a record of another bucket causes no step at all, and in
\* every batch that has ended, with or without an exception, the destination
\* writes and the metadata inserts each number as many as the matching records.
C1_AsWritten ==
    \A p \in Inv :
        /\ \A m \in 1..Len(trace[p]) : trace[p][m].idx \in Matching(p)
        /\ pc[p] \in Terminal =>
              /\ Count(p, "put") = Cardinality(Matching(p))
              /\ Count(p, "insert") = Cardinality(Matching(p))

\* C1 amended: a record of another bucket causes no read, no write and no
\* insert; the writes and the inserts of a batch never outnumber its matching
\* records, and they equal that number once the invocation has returned.
C1_SkipIsNoOp ==
    \A p \in Inv :
        /\ \A m \in 1..Len(trace[p]) : trace[p][m].idx \in Matching(p)
        /\ Count(p, "get") <= Cardinality(Matching(p))
        /\ Count(p, "insert") <= Count(p, "put")
        /\ Count(p, "put") <= Count(p, "get")
        /\ pc[p] = "done" =>
              /\ Count(p, "get") = Cardinality(Matching(p))
              /\ Count(p, "put") = Cardinality(Matching(p))
              /\ Count(p, "insert") = Cardinality(Matching(p))

\* One matching and one other record, returned: one write, one item.
C1_Witness ==
    \E p \in Inv :
        /\ pc[p] = "done"
        /\ Len(event[p]) = 2
        /\ Cardinality(Matching(p)) = 1
        /\ Count(p, "put") = 1
        /\ Count(p, "insert") = 1
        /\ Cardinality(DOMAIN metadata_table) = 1

\* C2 as written: whenever no invocation is under way, every object in the
\* destination bucket is named by exactly one metadata item.
C2_AsWritten ==
    Quiescent => \A k \in DOMAIN dest : Cardinality(RecordsOf(k)) = 1

\* C2 amended: every metadata item names, by destBucket and destKey, an
\* object that is in the destination bucket, and is the one item of one
\* destination write (of the same record, made before it); a destination
\* write has at most one item, and may have none.
C2_ItemsNameDerivatives ==
    /\ \A id \in DOMAIN metadata_table :
          /\ metadata_table[id].destBucket = DEST_BUCKET
          /\ metadata_table[id].destKey \in DOMAIN dest
          /\ \E p \in Inv : \E m \in 1..Len(trace[p]) :
                /\ trace[p][m].op = "insert"
                /\ trace[p][m].data = metadata_table[id]
                /\ m > 1
                /\ trace[p][m - 1].op = "put"
                /\ trace[p][m - 1].idx = trace[p][m].idx
                /\ trace[p][m - 1].bucket = metadata_table[id].destBucket
                /\ trace[p][m - 1].key = metadata_table[id].destKey
    /\ \A p \in Inv : \A n \in 1..Len(event[p]) :
          /\ Cardinality(At(p, n, "insert")) <= Cardinality(At(p, n, "put"))
          /\ Cardinality(At(p, n, "put")) <= 1
    /\ Cardinality(DOMAIN metadata_table) =
          Cardinality({pm \in Inv \X (1..MaxRecords) : At(pm[1], pm[2], "insert") # {}})

\* Nothing under way; one derivative has its item and another has none.
C2_Witness ==
    /\ Quiescent
    /\ \E k \in DOMAIN dest : RecordsOf(k) = {}
    /\ \E k \in DOMAIN dest : Cardinality(RecordsOf(k)) = 1

\* C3: a matching record whose read, write and insert all succeeded has
\* exactly one metadata item; its sizeOriginal is the ContentLength of the
\* read, its contentType the ContentType of the read and of the write, its
\* source fields the record's, its dest fields the bucket and key written.
C3_ItemMatchesItsSteps ==
    \A p \in Inv : \A n \in Matching(p) :
        At(p, n, "insert") # {} =>
            LET g == TheStep(p, n, "get")
                w == TheStep(p, n, "put")
                t == TheStep(p, n, "insert")
            IN  /\ Cardinality(At(p, n, "insert")) = 1
                /\ Cardinality({id \in DOMAIN metadata_table :
                                   metadata_table[id] = t.data}) = 1
                /\ t.data.imageId \in DOMAIN metadata_table
                /\ metadata_table[t.data.imageId] = t.data
                /\ t.data.sizeOriginal = g.data.ContentLength
                /\ t.data.contentType = g.data.ContentType
                /\ t.data.contentType = w.data.ContentType
                /\ t.data.sourceBucket = BucketOf(p, n)
                /\ t.data.sourceKey = KeyOf(p, n)
                /\ t.data.destBucket = w.bucket
                /\ t.data.destKey = w.key
                /\ w.bucket = DEST_BUCKET

\* Both records of a batch have their items, read with different lengths.
C3_Witness ==
    \E p \in Inv :
        /\ Cardinality(Matching(p)) = 2
        /\ \A n \in Matching(p) : At(p, n, "insert") # {}
        /\ TheStep(p, 1, "get").data.ContentLength
              # TheStep(p, 2, "get").data.ContentLength
        /\ Cardinality(DOMAIN metadata_table) = 2

\* C4: the key of every destination write, and the destKey of every item,
\* is "resized-" followed by the last slash-separated segment of the
\* record's key.
C4_DestKeyIsResizedBasename ==
    \A p \in Inv : \A m \in 1..Len(trace[p]) :
        LET want == RESIZED \o LastSegment(KeyOf(p, trace[p][m].idx), <<>>)
        IN  /\ trace[p][m].op = "put" =>
                  /\ trace[p][m].key = want
                  /\ want \in DOMAIN dest
            /\ trace[p][m].op = "insert" =>
                  /\ trace[p][m].data.destKey = want
                  /\ metadata_table[trace[p][m].data.imageId].destKey = want

\* A key with two directory levels has been written and recorded.
C4_Witness ==
    \E p \in Inv : \E n \in Matching(p) :
        /\ Slashes(KeyOf(p, n)) >= 2
        /\ At(p, n, "insert") # {}
        /\ TheStep(p, n, "put").key = RESIZED \o <<"a">>

\* C5: an invocation has returned {"status": "done"} exactly when it has
\* ended with every matching record through read, transform, write and
\* insert; one that ended otherwise raised and returned nothing.
C5_DoneIffAllComplete ==
    \A p \in Inv :
        /\ ret[p] \in {NoReturn, Done}
        /\ ret[p] = Done <=>
              (pc[p] \in Terminal /\ \A n \in Matching(p) : Complete(p, n))
        /\ ret[p] = Done => raised[p] = NoExc
        /\ pc[p] = "failed" => (ret[p] = NoReturn /\ raised[p] # NoExc)

\* One invocation returned after a full record while another raised.
C5_Witness ==
    \E p, q \in Inv :
        /\ ret[p] = Done
        /\ Cardinality(Matching(p)) >= 1
        /\ pc[q] = "failed"
        /\ ret[q] = NoReturn

StoreOps == {"get", "put", "insert"}

\* The store operations p performed, in order, as <<record index, operation>>.
Performed(p) ==
    LET ops == SelectSeq(trace[p], LAMBDA e : e.op \in StoreOps)
    IN  [m \in 1..Len(ops) |-> <<ops[m].idx, ops[m].op>>]

\* All three operations of each matching record among the first n of p.
RECURSIVE AllOf(_, _)
AllOf(p, n) ==
    IF n = 0 THEN <<>>
    ELSE AllOf(p, n - 1) \o
         (IF n \in Matching(p)
          THEN <<<<n, "get">>, <<n, "put">>, <<n, "insert">>>>
          ELSE <<>>)

\* The operations of record n that come before the call named at.
Before(n, at) ==
    IF at = "get" THEN <<>>
    ELSE IF at \in {"transform", "put"} THEN <<<<n, "get">>>>
    ELSE <<<<n, "get">>, <<n, "put">>>>

\* C6: once a step of record k has raised, the operations the invocation has
\* performed are those of the matching records before k and the steps of k
\* before the failing one, and they stay so: nothing later is performed,
\* nothing is retried, and no object or item is removed or changed back (a
\* failed insert leaves the object its record wrote in the bucket).
C6_FailureStopsAndKeeps ==
    /\ [](\A p \in Inv :
            raised[p] # NoExc =>
                /\ pc[p] = "failed"
                /\ i[p] \in Matching(p)
                /\ Performed(p) = AllOf(p, i[p] - 1) \o Before(i[p], raised[p].at)
                /\ raised[p].at = "insert" => output_key[p] \in DOMAIN dest)
    /\ [][/\ \A p \in Inv :
                raised[p] # NoExc =>
                    /\ trace'[p] = trace[p]
                    /\ pc'[p] = pc[p]
                    /\ raised'[p] = raised[p]
          /\ \A k \in DOMAIN dest : k \in DOMAIN dest'
          /\ \A id \in DOMAIN metadata_table :
                /\ id \in DOMAIN metadata_table'
                /\ metadata_table'[id] = metadata_table[id]]_vars

\* The insert of a second record failed after the first record went through;
\* the object the second record wrote is still in the bucket.
C6_Witness ==
    \E p \in Inv :
        /\ raised[p].at = "insert"
        /\ i[p] = 2
        /\ Len(Performed(p)) = 5
        /\ output_key[p] \in DOMAIN dest

\* C7: bytes that do not decode never reach the stores: every write and
\* every insert of a record follows a read of decodable bytes and their
\* re-encoding, and an invocation that read undecodable bytes ends with
\* DecodeError, never with a return, with no write and no insert for that
\* record.
C7_DecodePrecedesWrites ==
    \A p \in Inv :
        /\ \A m \in 1..Len(trace[p]) :
              trace[p][m].op \in {"put", "insert"} =>
                  \E g, t \in 1..(m - 1) :
                      /\ g < t
                      /\ trace[p][g].idx = trace[p][m].idx
                      /\ trace[p][g].op = "get"
                      /\ trace[p][g].data.Body.decodable
                      /\ trace[p][t].idx = trace[p][m].idx
                      /\ trace[p][t].op = "transform"
        /\ \A g \in 1..Len(trace[p]) :
              (trace[p][g].op = "get" /\ ~trace[p][g].data.Body.decodable) =>
                  /\ g = Len(trace[p])
                  /\ pc[p] \in {"transform", "failed"}
                  /\ pc[p] = "failed" => raised[p].type = "DecodeError"
        /\ raised[p].type = "DecodeError" =>
              /\ pc[p] = "failed"
              /\ At(p, i[p], "put") = {}
              /\ At(p, i[p], "insert") = {}
              /\ ~obj[p].Body.decodable

\* The second record of a batch was undecodable: DecodeError, nothing of
\* that record in the bucket or the table, the first record's still there.
C7_Witness ==
    \E p \in Inv :
        /\ raised[p].type = "DecodeError"
        /\ i[p] = 2
        /\ Complete(p, 1)
        /\ Cardinality(DOMAIN dest) = 1
        /\ Cardinality(DOMAIN metadata_table) = 1

Max2(a, b) == IF a >= b THEN a ELSE b

\* C8: an image of size (w, h) that fits in 1024x1024 keeps its size; a
\* larger one comes out with its longer side 1024 and its other side within
\* one pixel of the proportional value.
C8_ShrinkToFit ==
    \A p \in Inv : \A m \in 1..Len(trace[p]) :
        trace[p][m].op = "transform" =>
            LET w == trace[p][m - 1].data.Body.size[1]
                h == trace[p][m - 1].data.Body.size[2]
                x == trace[p][m].data.size[1]
                y == trace[p][m].data.size[2]
            IN  /\ trace[p][m - 1].op = "get"
                /\ w >= 1 /\ h >= 1
                /\ Max2(w, h) <= THUMB_SIDE => (x = w /\ y = h)
                /\ Max2(w, h) > THUMB_SIDE =>
                      /\ Max2(x, y) = THUMB_SIDE
                      /\ x >= 1 /\ y >= 1
                      /\ w >= h => (x = THUMB_SIDE /\ Abs(y * w - THUMB_SIDE * h) < w)
                      /\ h >= w => (y = THUMB_SIDE /\ Abs(x * h - THUMB_SIDE * w) < h)

\* A tall image whose width does not scale to a whole number was shrunk.
C8_Witness ==
    \E p \in Inv :
        /\ pc[p] = "put"
        /\ obj[p].Body.size[2] > THUMB_SIDE
        /\ obj[p].Body.size[1] < obj[p].Body.size[2]
        /\ (THUMB_SIDE * obj[p].Body.size[1]) % obj[p].Body.size[2] # 0
        /\ output_buffer[p].size[2] = THUMB_SIDE
        /\ output_buffer[p].size[1] < obj[p].Body.size[1]

Rank(op) ==
    IF op = "get" THEN 1 ELSE IF op = "transform" THEN 2
    ELSE IF op = "put" THEN 3 ELSE 4

\* C9: the steps of one invocation are sequential: records in the order of
\* the batch, and for each matching record read, transform, write, insert,
\* each once and each right after the one before; the read of a record comes
\* right after the insert of the matching record before it.
C9_Sequential ==
    \A p \in Inv : \A m \in 1..Len(trace[p]) :
        LET e == trace[p][m]
        IN  /\ e.idx \in Matching(p)
            /\ \A n \in 1..(m - 1) :
                  \/ trace[p][n].idx < e.idx
                  \/ /\ trace[p][n].idx = e.idx
                     /\ Rank(trace[p][n].op) < Rank(e.op)
            /\ Rank(e.op) > 1 =>
                  /\ m > 1
                  /\ trace[p][m - 1].idx = e.idx
                  /\ Rank(trace[p][m - 1].op) = Rank(e.op) - 1
            /\ (Rank(e.op) = 1 /\ m > 1) =>
                  /\ trace[p][m - 1].op = "insert"
                  /\ trace[p][m - 1].idx < e.idx
                  /\ \A n \in (trace[p][m - 1].idx + 1)..(e.idx - 1) :
                        n \notin Matching(p)
            /\ (Rank(e.op) = 1 /\ m = 1) =>
                  \A n \in 1..(e.idx - 1) : n \notin Matching(p)

\* Two matching records of one batch, both through all their steps.
C9_Witness ==
    \E p \in Inv :
        /\ Len(trace[p]) = 8
        /\ trace[p][4].op = "insert" /\ trace[p][4].idx = 1
        /\ trace[p][5].op = "get" /\ trace[p][5].idx = 2
        /\ pc[p] = "done"

\* Two records, of any invocations, whose keys differ only in the directory.
Colliding(p, n, q, m) ==
    /\ <<p, n>> # <<q, m>>
    /\ n \in Matching(p)
    /\ m \in Matching(q)
    /\ KeyOf(p, n) # KeyOf(q, m)
    /\ LastSegment(KeyOf(p, n), <<>>) = LastSegment(KeyOf(q, m), <<>>)

\* C10: when two records whose keys differ only in the directory have both
\* been processed, their writes went to one destination key, which holds
\* the object of one of the writes made to it, and two items with different
\* imageId and sourceKey name that key; and every write leaves the bucket
\* holding what it wrote under its key, whatever was there (the last wins).
C10_CollidingKeysOverwrite ==
    /\ [](\A p, q \in Inv : \A n \in 1..Len(event[p]) : \A m \in 1..Len(event[q]) :
            (Colliding(p, n, q, m) /\ At(p, n, "insert") # {} /\ At(q, m, "insert") # {}) =>
                LET a == TheStep(p, n, "insert").data
                    b == TheStep(q, m, "insert").data
                    k == TheStep(p, n, "put").key
                IN  /\ TheStep(q, m, "put").key = k
                    /\ k \in DOMAIN dest
                    /\ a.imageId # b.imageId
                    /\ a.sourceKey # b.sourceKey
                    /\ a.destKey = k /\ b.destKey = k
                    /\ metadata_table[a.imageId] = a
                    /\ metadata_table[b.imageId] = b
                    /\ {a.imageId, b.imageId} \subseteq RecordsOf(k)
                    /\ \E r \in Inv : \E j \in 1..Len(trace[r]) :
                          /\ trace[r][j].op = "put"
                          /\ trace[r][j].key = k
                          /\ trace[r][j].data = dest[k])
    /\ [][\A p \in Inv :
            (pc[p] = "put" /\ pc'[p] = "insert") =>
                /\ output_key'[p] \in DOMAIN dest'
                /\ dest'[output_key'[p]] =
                      [Body |-> output_buffer[p], ContentType |-> obj[p].ContentType]
                /\ \A k \in DOMAIN dest' :
                      k # output_key'[p] => (k \in DOMAIN dest /\ dest'[k] = dest[k])]_vars

\* Two overlapping invocations processed a and d/a into different images:
\* invocation 1 was called first and wrote last, and the bucket holds its
\* image alone while both items name the key.
C10_Witness ==
    /\ NumInv >= 2
    /\ pc[1] = "done" /\ pc[2] = "done"
    /\ Len(event[1]) = 1 /\ Len(event[2]) = 1
    /\ Colliding(1, 1, 2, 1)
    /\ Complete(1, 1) /\ Complete(2, 1)
    /\ TheStep(1, 1, "put").data # TheStep(2, 1, "put").data
    /\ DOMAIN dest = {TheStep(1, 1, "put").key}
    /\ dest[TheStep(1, 1, "put").key] = TheStep(1, 1, "put").data
    /\ Cardinality(RecordsOf(TheStep(1, 1, "put").key)) = 2

====
